---- MODULE Spec2Model ----
(***************************************************************************)
(* A model of the move-evaluation engine of brainfuck-game (src/game.rs):  *)
(* Bucket, the Brainfuck tokenizer, GameBoard::run / eval and              *)
(* GameBoard::winners.                                                     *)
(*                                                                         *)
(* A call of GameBoard::eval is modelled in steps, so that the board the   *)
(* interpreter leaves behind before eval restores its backup is a state of *)
(* the model:                                                              *)
(*   EvalCall      clone the board, tokenize, enter run, length check      *)
(*   RunStep       one iteration of the `for _ in 0..steps` loop of run    *)
(*   EvalFinish    restore the backup or advance the turn, return          *)
(*   EvalPropagate the `?` after Brainfuck::new returning its error        *)
(*                                                                         *)
(* Indices (position, pointer, jump targets, error indices) are 0-based as *)
(* in the source; the k-th element of a Vec is element k + 1 of a sequence.*)
(* A bucket's capacity is the capacity of its Vec of counters, which       *)
(* Vec::with_capacity sets and no push within it changes.                  *)
(* SpecTok runs Brainfuck::new alone, on longer strings than Spec gives to *)
(* eval.                                                                   *)
(***************************************************************************)
EXTENDS Integers, Sequences, FiniteSets, TLC

\* ------------------------------------------------------------------ bounds

\* Longest move string (characters, whitespace included) given to eval.
MaxLen == 2
\* Largest step budget given to eval.
MaxBudget == 3
\* eval is not called once turn has reached MaxTurn.
MaxTurn == 3
\* Largest buffer_buckets value given to the board.
MaxBuffer == 2
\* Longest move string given to the tokenizer alone.
MaxTokLen == 4

\* The number of messages handled at the same time.
NHandlers == 2

\* ------------------------------------------------------- program constants

\* u16 arithmetic of win_bucket_count / winners.
U16 == 65536

\* ---------------------------------------------------------------- helpers

Last(s) == s[Len(s)]

Front(s) == SubSeq(s, 1, Len(s) - 1)

Range(s) == {s[k] : k \in 1..Len(s)}

\* All sequences over S of length at most n.
SeqsUpTo(S, n) == UNION {[1..k -> S] : k \in 0..n}

\* ------------------------------------------------------------------ inputs

\* Player symbols.
PlayerSyms == {"X", "O", "Z"}

\* Players::default().
DefaultPlayers == <<"X", "O">>

\* The player lists `set players` accepts here: at least 2, no repeats.
PlayerLists == {<<"X", "O">>, <<"X", "O", "Z">>}

\* The bucket rows given to GameBoard::new / reset_with (never empty).
CapacityLists == {<<1>>, <<0, 1>>, <<2, 1>>, <<1, 1, 1>>}

\* The characters of a move string: the six instruction characters, a
\* whitespace character and a character outside the alphabet.
Chars == {"+", "-", "<", ">", "[", "]", " ", "a"}

\* char::is_whitespace on the characters above.
is_whitespace(c) == c = " "

\* Moves with a loop that has a body: the shortest programs in which a left
\* bracket does not jump to the instruction that follows it.
LoopMoves == {<<"[", "+", "]">>, <<"[", "-", "]">>}

\* The move strings given to eval.
Moves == SeqsUpTo(Chars, MaxLen) \cup LoopMoves

\* The step budgets given to eval.
Budgets == 0..MaxBudget

\* ------------------------------------------------------------------ Bucket

\* Bucket::new: the capacity is the capacity of the Vec of counters.
Bucket_new(cap) == [counters |-> <<>>, capacity |-> cap, locked |-> FALSE]

\* Mutant of Bucket_clone: the clone forgets the locked flag.
Bucket_clone_unlocked(b) ==
    [counters |-> b.counters, capacity |-> b.capacity, locked |-> FALSE]

\* impl Clone for Bucket: a Vec of the same capacity, the same counters, the
\* same locked flag.
Bucket_clone(b) ==
    [counters |-> b.counters, capacity |-> b.capacity, locked |-> b.locked]

\* Mutant of Bucket_empty: the counters are cleared, the lock is left alone.
Bucket_empty_keep_lock(b) == [b EXCEPT !.counters = <<>>]

\* Bucket::empty.
Bucket_empty(b) == Bucket_new(b.capacity)

fill(b) == Len(b.counters)

is_empty(b) == fill(b) = 0

capacity(b) == b.capacity

free(b) == capacity(b) - fill(b)

Ok == [kind |-> "Ok"]

IsErr(r) == r.kind # "Ok"

\* Mutant of Bucket_push: filling the last slot locks the bucket whatever the
\* Mutant of Bucket_push: a counter that would fill the bucket with mixed
\* counters is not appended.
Bucket_push_reject_mixed(b, player, pos) ==
    IF free(b) = 0
    THEN [bucket |-> b,
          res |-> IF b.locked
                  THEN [kind |-> "LockedIncr", position |-> pos]
                  ELSE [kind |-> "Overflow", position |-> pos]]
    ELSE IF free(b) = 1
    THEN IF \E k \in 1..Len(b.counters) : b.counters[k] # player
         THEN [bucket |-> b, res |-> Ok]
         ELSE [bucket |-> [b EXCEPT !.counters = Append(b.counters, player),
                                    !.locked = TRUE],
               res |-> Ok]
    ELSE [bucket |-> [b EXCEPT !.counters = Append(b.counters, player)],
          res |-> Ok]

\* counters in it.
Bucket_push_lock_any(b, player, pos) ==
    IF free(b) = 0
    THEN [bucket |-> b,
          res |-> IF b.locked
                  THEN [kind |-> "LockedIncr", position |-> pos]
                  ELSE [kind |-> "Overflow", position |-> pos]]
    ELSE IF free(b) = 1
    THEN [bucket |-> [b EXCEPT !.counters = Append(b.counters, player),
                               !.locked = TRUE],
          res |-> Ok]
    ELSE [bucket |-> [b EXCEPT !.counters = Append(b.counters, player)],
          res |-> Ok]

\* Bucket::push: the bucket after the call and the call's result.
Bucket_push(b, player, pos) ==
    IF free(b) = 0
    THEN [bucket |-> b,
          res |-> IF b.locked
                  THEN [kind |-> "LockedIncr", position |-> pos]
                  ELSE [kind |-> "Overflow", position |-> pos]]
    ELSE IF free(b) = 1
    THEN LET pushed == Append(b.counters, player)
         IN  IF \E k \in 1..Len(pushed) : pushed[k] # player
             THEN [bucket |-> [b EXCEPT !.counters = pushed], res |-> Ok]
             ELSE [bucket |-> [b EXCEPT !.counters = pushed, !.locked = TRUE],
                   res |-> Ok]
    ELSE [bucket |-> [b EXCEPT !.counters = Append(b.counters, player)],
          res |-> Ok]

\* Mutant of Bucket_pop: the oldest counter is removed.
Bucket_pop_fifo(b, pos) ==
    IF is_empty(b)
    THEN [bucket |-> b, res |-> [kind |-> "Underflow", position |-> pos]]
    ELSE IF b.locked
    THEN [bucket |-> b, res |-> [kind |-> "LockedDecr", position |-> pos]]
    ELSE [bucket |-> [b EXCEPT !.counters = Tail(b.counters)], res |-> Ok]

\* Mutant of Bucket_pop: the locked flag is not looked at.
Bucket_pop_unlocked(b, pos) ==
    IF is_empty(b)
    THEN [bucket |-> b, res |-> [kind |-> "Underflow", position |-> pos]]
    ELSE [bucket |-> [b EXCEPT !.counters = Front(b.counters)], res |-> Ok]

\* Bucket::pop.
Bucket_pop(b, pos) ==
    IF is_empty(b)
    THEN [bucket |-> b, res |-> [kind |-> "Underflow", position |-> pos]]
    ELSE IF b.locked
    THEN [bucket |-> b, res |-> [kind |-> "LockedDecr", position |-> pos]]
    ELSE [bucket |-> [b EXCEPT !.counters = Front(b.counters)], res |-> Ok]

\* --------------------------------------------------------------- Brainfuck

Command(cmd) == [type |-> "Command", cmd |-> cmd]

JumpIfZero(target) == [type |-> "JumpIfZero", target |-> target]

JumpIfNonzero(target) == [type |-> "JumpIfNonzero", target |-> target]

\* Mutant of NonWhitespace: the filter is left out.
NonWhitespace_unfiltered(str) == str

\* str.chars().filter(|c| !c.is_whitespace())
NonWhitespace(str) == SelectSeq(str, LAMBDA c : ~is_whitespace(c))

\* Mutant of pop_back: the oldest pending bracket is taken (pop_front).
pop_front(queue) == [value |-> Head(queue), rest |-> Tail(queue)]

\* VecDeque::pop_back on a non-empty queue: the element taken and the rest.
pop_back(queue) == [value |-> Last(queue), rest |-> Front(queue)]

\* Mutant of MismatchedRight: the index shown to the user (1-based) is stored.
MismatchedRight_one_based(pos) == [kind |-> "MismatchedRight", idx |-> pos + 1]

\* EvalError::MismatchedRight { idx: pos }.
MismatchedRight(pos) == [kind |-> "MismatchedRight", idx |-> pos]

\* EvalError::InvalidChar { c, idx: pos }.
InvalidChar(c, pos) == [kind |-> "InvalidChar", c |-> c, idx |-> pos]

\* The body of the loop of Brainfuck::new and what follows it. chars are the
\* non-whitespace characters, pos the 0-based index of the next one, tokens[k+1]
\* the token of index k, queue the indices of the pending left brackets.
RECURSIVE Tokenize(_, _, _, _)
Tokenize(chars, pos, tokens, queue) ==
    IF pos = Len(chars)
    THEN IF queue # <<>>
         THEN [res |-> [kind |-> "MismatchedLeft", idx |-> pop_back(queue).value]]
         ELSE [res |-> Ok, bf |-> [tokens |-> tokens, pointer |-> 0]]
    ELSE LET c == chars[pos + 1] IN
         CASE c = "+" ->
                Tokenize(chars, pos + 1, Append(tokens, Command("Increment")), queue)
           [] c = "-" ->
                Tokenize(chars, pos + 1, Append(tokens, Command("Decrement")), queue)
           [] c = "<" ->
                Tokenize(chars, pos + 1, Append(tokens, Command("MoveLeft")), queue)
           [] c = ">" ->
                Tokenize(chars, pos + 1, Append(tokens, Command("MoveRight")), queue)
           [] c = "[" ->
                Tokenize(chars, pos + 1, Append(tokens, JumpIfZero(0)),
                         Append(queue, pos))
           [] c = "]" ->
                IF queue # <<>>
                THEN LET target == pop_back(queue).value
                         pushed == Append(tokens, JumpIfNonzero(target))
                     IN  Tokenize(chars, pos + 1,
                                  [pushed EXCEPT ![target + 1] = JumpIfZero(pos)],
                                  pop_back(queue).rest)
                ELSE [res |-> MismatchedRight(pos)]
           [] OTHER -> [res |-> InvalidChar(c, pos)]

\* Brainfuck::new.
Brainfuck_new(str) == Tokenize(NonWhitespace(str), 0, <<>>, <<>>)

\* Brainfuck::new on every move string given to eval, computed once.
Tokenized == [s \in Moves |-> Brainfuck_new(s)]

\* Brainfuck::len.
bf_len(b) == Len(b.tokens)

\* Brainfuck::read: is there a token at the pointer, and which.
bf_has_token(b) == b.pointer < Len(b.tokens)

bf_read(b) == b.tokens[b.pointer + 1]

\* Brainfuck::advance.
advance(b) == [b EXCEPT !.pointer = b.pointer + 1]

\* Mutant of jump: the pointer is set past the target bracket.
jump_past(b, target) == [b EXCEPT !.pointer = target + 1]

\* Brainfuck::jump.
jump(b, target) == [b EXCEPT !.pointer = target]

\* --------------------------------------------------------------- GameBoard

\* GameBoard::new.
GameBoard_new(capacities, buffer) ==
    [buckets |-> [k \in 1..Len(capacities) |-> Bucket_new(capacities[k])],
     position |-> 0,
     turn |-> 0,
     players |-> DefaultPlayers,
     buffer_buckets |-> buffer]

\* #[derive(Clone)] for GameBoard.
GameBoard_clone(g) ==
    [buckets |-> [k \in 1..Len(g.buckets) |-> Bucket_clone(g.buckets[k])],
     position |-> g.position,
     turn |-> g.turn,
     players |-> g.players,
     buffer_buckets |-> g.buffer_buckets]

\* GameBoard::reset.
reset(g) ==
    [g EXCEPT !.buckets = [k \in 1..Len(g.buckets) |-> Bucket_empty(g.buckets[k])],
              !.position = 0,
              !.turn = 0]

\* GameBoard::reset_with.
reset_with(g, capacities) ==
    [g EXCEPT !.buckets = [k \in 1..Len(capacities) |-> Bucket_new(capacities[k])],
              !.position = 0,
              !.turn = 0]

\* GameBoard::bucket: the bucket of index position.
bucket(g) == g.buckets[g.position + 1]

bucket_count(g) == Len(g.buckets)

\* Mutant of player_idx: the turn is counted from 1.
player_idx_next(g) == (g.turn + 1) % Len(g.players)

\* Players::idx and GameBoard::player_idx.
player_idx(g) == g.turn % Len(g.players)

\* GameBoard::player.
player(g) == g.players[player_idx(g) + 1]

\* Mutant of incr: the counter goes into the first bucket, wherever the
\* pointer is.
incr_first_bucket(g) ==
    LET r == Bucket_push(g.buckets[1], player(g), g.position)
    IN  [board |-> [g EXCEPT !.buckets[1] = r.bucket], res |-> r.res]

\* GameBoard::incr.
incr(g) ==
    LET r == Bucket_push(bucket(g), player(g), g.position)
    IN  [board |-> [g EXCEPT !.buckets[g.position + 1] = r.bucket], res |-> r.res]

\* Mutant of decr: the error carries the 1-based number of the bucket.
decr_one_based(g) ==
    LET r == Bucket_pop(bucket(g), g.position + 1)
    IN  [board |-> [g EXCEPT !.buckets[g.position + 1] = r.bucket], res |-> r.res]

\* GameBoard::decr.
decr(g) ==
    LET r == Bucket_pop(bucket(g), g.position)
    IN  [board |-> [g EXCEPT !.buckets[g.position + 1] = r.bucket], res |-> r.res]

\* Mutant of move_left: the position saturates at 0 and no error is returned.
move_left_saturating(g) ==
    IF g.position = 0
    THEN [board |-> g, res |-> Ok]
    ELSE [board |-> [g EXCEPT !.position = g.position - 1], res |-> Ok]

\* GameBoard::move_left.
move_left(g) ==
    IF g.position = 0
    THEN [board |-> g, res |-> [kind |-> "UnderBounds"]]
    ELSE [board |-> [g EXCEPT !.position = g.position - 1], res |-> Ok]

\* Mutant of move_right: the position saturates at the last bucket and no
\* error is returned.
move_right_saturating(g) ==
    IF g.position + 1 = Len(g.buckets)
    THEN [board |-> g, res |-> Ok]
    ELSE [board |-> [g EXCEPT !.position = g.position + 1], res |-> Ok]

\* GameBoard::move_right: the position is incremented before the test.
move_right(g) ==
    LET moved == [g EXCEPT !.position = g.position + 1]
    IN  IF moved.position = Len(moved.buckets)
        THEN [board |-> moved, res |-> [kind |-> "OverBounds"]]
        ELSE [board |-> moved, res |-> Ok]

\* GameBoard::next_turn.
next_turn(g) == [g EXCEPT !.turn = g.turn + 1]

\* GameBoard::exec.
exec(g, cmd) ==
    CASE cmd = "Increment" -> incr(g)
      [] cmd = "Decrement" -> decr(g)
      [] cmd = "MoveLeft" -> move_left(g)
      [] cmd = "MoveRight" -> move_right(g)

\* Mutant of LengthCheck: the length is compared with turn, not turn + 1.
LengthCheck_turn(g, b) ==
    LET t == g.turn
    IN  IF bf_len(b) > t
        THEN [kind |-> "Length", len |-> bf_len(b), turn |-> t]
        ELSE Ok

\* The length check that opens GameBoard::run.
LengthCheck(g, b) ==
    LET t == g.turn + 1
    IN  IF bf_len(b) > t
        THEN [kind |-> "Length", len |-> bf_len(b), turn |-> t]
        ELSE Ok

\* Mutant of RunToken: JumpIfZero jumps when the bucket is not empty.
RunToken_jz_inverted(g, b) ==
    LET instr == bf_read(b) IN
    CASE instr.type = "Command" ->
           LET r == exec(g, instr.cmd)
           IN  IF IsErr(r.res)
               THEN [board |-> r.board, bf |-> b, res |-> r.res]
               ELSE [board |-> r.board, bf |-> advance(b), res |-> Ok]
      [] instr.type = "JumpIfZero" ->
           [board |-> g,
            bf |-> IF ~is_empty(bucket(g)) THEN jump(b, instr.target) ELSE advance(b),
            res |-> Ok]
      [] instr.type = "JumpIfNonzero" ->
           [board |-> g,
            bf |-> IF ~is_empty(bucket(g)) THEN jump(b, instr.target) ELSE advance(b),
            res |-> Ok]

\* One iteration of the loop of GameBoard::run with a token at the pointer:
\* the board and the program after it, and the error that ends run, if any.
RunToken(g, b) ==
    LET instr == bf_read(b) IN
    CASE instr.type = "Command" ->
           LET r == exec(g, instr.cmd)
           IN  IF IsErr(r.res)
               THEN [board |-> r.board, bf |-> b, res |-> r.res]
               ELSE [board |-> r.board, bf |-> advance(b), res |-> Ok]
      [] instr.type = "JumpIfZero" ->
           [board |-> g,
            bf |-> IF is_empty(bucket(g)) THEN jump(b, instr.target) ELSE advance(b),
            res |-> Ok]
      [] instr.type = "JumpIfNonzero" ->
           [board |-> g,
            bf |-> IF ~is_empty(bucket(g)) THEN jump(b, instr.target) ELSE advance(b),
            res |-> Ok]

\* Mutant of Exhausted: the loop counts from 1 (`for _ in 1..steps`).
Exhausted_from_one(i, n) == i + 1 >= n

\* `for _ in 0..steps`: have i iterations used up the n of the loop?
Exhausted(i, n) == i = n

\* Mutant of NextIter: only commands count, jumps are free.
NextIter_commands_only(i, instr) == IF instr.type = "Command" THEN i + 1 ELSE i

\* `for _ in 0..steps`: the number of iterations done once one more has executed
\* instr.
NextIter(i, instr) == i + 1

\* The value of a local that does not exist at this point.
None == [kind |-> "None"]

NoProgram == [tokens |-> <<>>, pointer |-> 0]

\* Mutant of eval_start: the length of the string is checked before it is
\* tokenized.
eval_start_length_first(g, new, n_chars) ==
    IF n_chars > g.turn + 1
    THEN [pc |-> "run_done",
          bf |-> IF IsErr(new.res) THEN NoProgram ELSE new.bf,
          res |-> [kind |-> "Length", len |-> n_chars, turn |-> g.turn + 1]]
    ELSE IF IsErr(new.res)
    THEN [pc |-> "new_failed", bf |-> NoProgram, res |-> new.res]
    ELSE [pc |-> "run", bf |-> new.bf, res |-> Ok]

\* `self.run(Brainfuck::new(str)?, steps)` up to the loop of run, new being
\* what Brainfuck::new returned: the `?` returns a tokenizer error, and if
\* there is none run checks the length. Where eval stands then, with which
\* program and which result so far.
eval_start(g, new, n_chars) ==
    IF IsErr(new.res)
    THEN [pc |-> "new_failed", bf |-> NoProgram, res |-> new.res]
    ELSE [pc |-> IF IsErr(LengthCheck(g, new.bf)) THEN "run_done" ELSE "run",
          bf |-> new.bf,
          res |-> LengthCheck(g, new.bf)]

\* Mutant of eval_end: the turn advances after a failed run too.
eval_end_always_advances(g, bk, r) == next_turn(IF IsErr(r) THEN bk ELSE g)

\* Mutant of eval_end: the backup is not restored after a failed run.
eval_end_no_restore(g, bk, r) == IF IsErr(r) THEN g ELSE next_turn(g)

\* The end of GameBoard::eval: the board after `*self = backup` if run failed
\* and after next_turn() if it did not.
eval_end(g, bk, r) == IF IsErr(r) THEN bk ELSE next_turn(g)

\* ----------------------------------------------------------------- winners

\* GameBoard::locked_buckets.
locked_buckets(g) == Cardinality({k \in 1..Len(g.buckets) : g.buckets[k].locked})

\* GameBoard::win_bucket_count: `bucket_count() as u16 - buffer_buckets`. The
\* subtraction of two u16 panics when it underflows in a build with overflow
\* checks (checks = TRUE) and wraps around in a build without them.
win_bucket_count(g, checks) ==
    LET count == bucket_count(g) % U16
    IN  IF count >= g.buffer_buckets
        THEN [kind |-> "Value", value |-> count - g.buffer_buckets]
        ELSE IF checks
        THEN [kind |-> "Panic"]
        ELSE [kind |-> "Value", value |-> (count - g.buffer_buckets) % U16]

\* The first loop of winners: the number of buckets each player owns, keyed by
\* the first counter of the bucket. `b.counters[0]` panics on an empty bucket.
HasEmptyBucket(g) == \E k \in 1..Len(g.buckets) : is_empty(g.buckets[k])

Owners(g) == {g.buckets[k].counters[1] : k \in 1..Len(g.buckets)}

counts(g) ==
    [p \in Owners(g) |->
        Cardinality({k \in 1..Len(g.buckets) : g.buckets[k].counters[1] = p})]

\* Mutant of MaxLoop: the arms for Greater and Less are exchanged.
RECURSIVE MaxLoop_swapped(_, _, _, _, _)
MaxLoop_swapped(cnt, order, k, max_count, won) ==
    IF k > Len(order)
    THEN won
    ELSE LET p == order[k]
             count == cnt[p]
         IN  IF count = max_count
             THEN MaxLoop_swapped(cnt, order, k + 1, max_count, Append(won, p))
             ELSE IF count < max_count
             THEN MaxLoop_swapped(cnt, order, k + 1, count, <<p>>)
             ELSE MaxLoop_swapped(cnt, order, k + 1, max_count, won)

\* The second loop of winners, over the entries of counts in the order `order`
\* (a HashMap's iteration order), from the entry of index k on.
RECURSIVE MaxLoop(_, _, _, _, _)
MaxLoop(cnt, order, k, max_count, won) ==
    IF k > Len(order)
    THEN won
    ELSE LET p == order[k]
             count == cnt[p]
         IN  IF count = max_count
             THEN MaxLoop(cnt, order, k + 1, max_count, Append(won, p))
             ELSE IF count > max_count
             THEN MaxLoop(cnt, order, k + 1, count, <<p>>)
             ELSE MaxLoop(cnt, order, k + 1, max_count, won)

\* The orders in which the entries of a map with keys S can be iterated.
Orders(S) == {o \in [1..Cardinality(S) -> S] : Range(o) = S}

\* GameBoard::winners, in a build with or without overflow checks and with
\* the HashMap iterated in the given order: None, Some(winners) or a panic.
winners(g, checks, order) ==
    LET wbc == win_bucket_count(g, checks)
    IN  IF wbc.kind = "Panic"
        THEN [kind |-> "Panic"]
        ELSE IF locked_buckets(g) % U16 < wbc.value
        THEN [kind |-> "None"]
        ELSE IF HasEmptyBucket(g)
        THEN [kind |-> "Panic"]
        ELSE [kind |-> "Some", winners |-> MaxLoop(counts(g), order, 1, 0, <<>>)]

\* Every outcome a call of winners can have on the board g.
WinnersOutcomes(g) ==
    {winners(g, checks, order) :
        checks \in BOOLEAN,
        order \in IF HasEmptyBucket(g) THEN {<<>>} ELSE Orders(Owners(g))}

\* ------------------------------------------------------------------- state

VARIABLES
    buckets,         \* GameBoard.buckets
    position,        \* GameBoard.position
    turn,            \* GameBoard.turn
    players,         \* GameBoard.players
    buffer_buckets,  \* GameBoard.buffer_buckets
    pc,              \* where the call of eval in flight stands, or "idle"
    nchars,          \* the number of non-whitespace characters of eval's str
    steps,           \* eval's argument steps
    backup,          \* eval's local backup
    bf,              \* run's argument bf: the tokens and the pointer
    iter,            \* the iterations of run's loop done so far
    res,             \* the result eval is about to return
    before,          \* the board when eval was called (history)
    visited,         \* the positions the pointer has been at in this call (history)
    tstr,            \* the string given to Brainfuck::new called alone
    tout,            \* what that call returned, None before it
    games,           \* GamesMap has an entry for the channel
    active,          \* GameConfig.active
    cfg_steps,       \* GameConfig.steps
    player_ids,      \* GameConfig.player_ids
    cfg_lock,        \* the RwLock of the GameConfig: who holds which guard
    hs               \* the message handlers: position, message in hand

boardVars == <<buckets, position, turn, players, buffer_buckets>>

evalVars == <<pc, nchars, steps, backup, bf, iter, res, before, visited>>

tokVars == <<tstr, tout>>

playVars == <<games, active, cfg_steps, player_ids, cfg_lock, hs>>

vars == <<buckets, position, turn, players, buffer_buckets,
          pc, nchars, steps, backup, bf, iter, res, before, visited, tstr, tout,
          games, active, cfg_steps, player_ids, cfg_lock, hs>>

\* The GameBoard as one value.
Self ==
    [buckets |-> buckets, position |-> position, turn |-> turn,
     players |-> players, buffer_buckets |-> buffer_buckets]

\* `*self = g`.
Assign(g) ==
    /\ buckets' = g.buckets
    /\ position' = g.position
    /\ turn' = g.turn
    /\ players' = g.players
    /\ buffer_buckets' = g.buffer_buckets

\* No call of eval is in flight.
Idle ==
    /\ pc = "idle"
    /\ nchars = 0
    /\ steps = 0
    /\ backup = None
    /\ bf = NoProgram
    /\ iter = 0
    /\ res = None
    /\ before = None
    /\ visited = {}

\* eval returns: its locals are dropped.
Return ==
    /\ pc' = "idle"
    /\ nchars' = 0
    /\ steps' = 0
    /\ backup' = None
    /\ bf' = NoProgram
    /\ iter' = 0
    /\ res' = None
    /\ before' = None
    /\ visited' = {}

\* The handlers of the messages that are being handled at the same time.
Handlers == 1..NHandlers

NoMessage == [kind |-> "none"]

\* A handler with no message in hand.
IdleHandler == [pc |-> "idle", mode |-> "none", msg |-> NoMessage]

\* An RwLock nobody holds a guard of.
FreeLock == [writers |-> {}, readers |-> {}]

\* GameConfig::default().steps.
DefaultSteps == 1000000

\* No message has been handled yet: the GamesMap is empty, and the
\* configuration that will be inserted for the channel is the default one.
NoSession ==
    /\ games = FALSE
    /\ active = FALSE
    /\ cfg_steps = DefaultSteps
    /\ player_ids = <<>>
    /\ cfg_lock = FreeLock
    /\ hs = [h \in Handlers |-> IdleHandler]

Init ==
    /\ \E capacities \in CapacityLists, buffer \in 0..MaxBuffer :
          /\ buckets = GameBoard_new(capacities, buffer).buckets
          /\ position = GameBoard_new(capacities, buffer).position
          /\ turn = GameBoard_new(capacities, buffer).turn
          /\ players = GameBoard_new(capacities, buffer).players
          /\ buffer_buckets = GameBoard_new(capacities, buffer).buffer_buckets
    /\ Idle
    /\ tstr = <<>>
    /\ tout = None
    /\ NoSession

\* ----------------------------------------------------------------- actions

\* GameBoard::eval up to the loop of run: the backup is taken, the string is
\* tokenized and, if that succeeds, run is entered and checks the length.
EvalEnter(s, n) ==
    /\ pc = "idle"
    /\ turn < MaxTurn
    /\ nchars' = Len(NonWhitespace(s))
    /\ steps' = n
    /\ before' = Self
    /\ visited' = {position}
    /\ backup' = GameBoard_clone(Self)
    /\ iter' = 0
    /\ LET start == eval_start(Self, Tokenized[s], Len(NonWhitespace(s))) IN
         /\ pc' = start.pc
         /\ bf' = start.bf
         /\ res' = start.res

\* GameBoard::eval called on the board alone.
EvalCall(s, n) ==
    /\ EvalEnter(s, n)
    /\ UNCHANGED <<boardVars, tokVars, playVars>>

\* One iteration of `for _ in 0..steps` in run, or the end of the loop.
RunStep ==
    /\ pc = "run"
    /\ IF Exhausted(iter, steps)
       THEN /\ res' = [kind |-> "MaxSteps"]
            /\ pc' = "run_done"
            /\ UNCHANGED <<boardVars, bf, iter, visited>>
       ELSE IF ~bf_has_token(bf)
       THEN /\ res' = Ok
            /\ pc' = "run_done"
            /\ UNCHANGED <<boardVars, bf, iter, visited>>
       ELSE LET r == RunToken(Self, bf) IN
            /\ Assign(r.board)
            /\ visited' = visited \cup {r.board.position}
            /\ bf' = r.bf
            /\ res' = r.res
            /\ IF IsErr(r.res)
               THEN pc' = "run_done" /\ UNCHANGED iter
               ELSE pc' = "run" /\ iter' = NextIter(iter, bf_read(bf))
    /\ UNCHANGED <<nchars, steps, backup, before, tokVars, playVars>>

\* The end of eval: `*self = backup` if run failed, next_turn() if not.
EvalFinish ==
    /\ pc = "run_done"
    /\ Assign(eval_end(Self, backup, res))
    /\ Return
    /\ UNCHANGED <<tokVars, playVars>>

\* The `?` of `Brainfuck::new(str)?`: eval returns the tokenizer's error.
EvalPropagate ==
    /\ pc = "new_failed"
    /\ UNCHANGED <<boardVars, tokVars, playVars>>
    /\ Return

\* GameBoard::reset.
Reset ==
    /\ pc = "idle"
    /\ Assign(reset(Self))
    /\ UNCHANGED <<evalVars, tokVars, playVars>>

\* GameBoard::reset_with.
ResetWith(capacities) ==
    /\ pc = "idle"
    /\ Assign(reset_with(Self, capacities))
    /\ UNCHANGED <<evalVars, tokVars, playVars>>

\* `cfg.board.buffer_buckets = buf`.
SetBuffer(buf) ==
    /\ pc = "idle"
    /\ buffer_buckets' = buf
    /\ UNCHANGED <<buckets, position, turn, players, evalVars, tokVars, playVars>>

\* `cfg.board.players = Players::new(players)`.
SetPlayers(ps) ==
    /\ pc = "idle"
    /\ players' = ps
    /\ UNCHANGED <<buckets, position, turn, buffer_buckets, evalVars, tokVars,
                   playVars>>

Next ==
    \/ \E s \in Moves, n \in Budgets : EvalCall(s, n)
    \/ RunStep
    \/ EvalFinish
    \/ EvalPropagate
    \/ Reset
    \/ \E capacities \in CapacityLists : ResetWith(capacities)
    \/ \E buf \in 0..MaxBuffer : SetBuffer(buf)
    \/ \E ps \in PlayerLists : SetPlayers(ps)

Spec == Init /\ [][Next]_vars

\* eval is synchronous code: once called, the loop of run goes on and eval
\* returns; nothing else has to happen.
SpecLive ==
    /\ Spec
    /\ WF_vars(RunStep)
    /\ WF_vars(EvalFinish)
    /\ WF_vars(EvalPropagate)

\* ------------------------------------------------- the tokenizer on its own

\* The strings given to Brainfuck::new called alone.
TokMoves == SeqsUpTo(Chars, MaxTokLen)

TokInit ==
    /\ buckets = GameBoard_new(<<1>>, 0).buckets
    /\ position = GameBoard_new(<<1>>, 0).position
    /\ turn = GameBoard_new(<<1>>, 0).turn
    /\ players = GameBoard_new(<<1>>, 0).players
    /\ buffer_buckets = GameBoard_new(<<1>>, 0).buffer_buckets
    /\ Idle
    /\ tstr \in TokMoves
    /\ tout = None
    /\ NoSession

\* Brainfuck::new(tstr).
TokNew ==
    /\ tout = None
    /\ tout' = Brainfuck_new(tstr)
    /\ UNCHANGED <<boardVars, evalVars, tstr, playVars>>

TokNext == TokNew

SpecTok == TokInit /\ [][TokNext]_vars

\* ------------------------------------------------------- the bot (play.rs)

\* The authors of the messages.
Users == {"u1", "u2"}

\* MAX_STEPS.
MAX_STEPS == 10000000

\* GameBoard::default(): five buckets of capacity 10, no buffer bucket.
GameBoard_default == GameBoard_new(<<10, 10, 10, 10, 10>>, 0)

\* A component of a message that parses as the number n, and one that does
\* not parse as a number.
Num(n) == [ok |-> TRUE, num |-> n]

Unparsable == [ok |-> FALSE]

\* The moves sent as messages: text whose first word is not a command.
PlayMoves == {<<"+">>}

SetKinds == {"set_players", "set_steps", "set_board", "set_buffer"}

\* The messages handled: the commands with their components, the moves and
\* the skips with their author.
Messages ==
    {[kind |-> "set_players", args |-> a] : a \in {<<"X", "O", "Z">>}}
    \cup {[kind |-> "set_steps", args |-> <<a>>] : a \in {Num(1)}}
    \cup {[kind |-> "set_board", args |-> a] : a \in {<<Num(1)>>, <<Num(1), Unparsable>>}}
    \cup {[kind |-> "set_buffer", args |-> <<a>>] : a \in {Num(1), Unparsable}}
    \cup {[kind |-> k] : k \in {"play", "board", "reset"}}
    \cup {[kind |-> "move", content |-> c, author |-> u] : c \in PlayMoves, u \in Users}
    \cup {[kind |-> "skip", author |-> u] : u \in Users}

\* The loop of `set board`: the components are parsed until one fails.
RECURSIVE ParsedCapacities(_)
ParsedCapacities(components) ==
    IF components = <<>> \/ ~Head(components).ok
    THEN <<>>
    ELSE <<Head(components).num>> \o ParsedCapacities(Tail(components))

\* The test of `set players` on a list of one-character components: at least
\* two of them and no repeated one.
PlayersAccepted(components) ==
    /\ Len(components) >= 2
    /\ \A i, j \in 1..Len(components) : i # j => components[i] # components[j]

\* A `set` message found the game inactive: does it go on to game_config_mut?
NeedsWrite(m) ==
    CASE m.kind = "set_players" -> TRUE
      [] m.kind = "set_steps" -> m.args[1].ok /\ m.args[1].num <= MAX_STEPS
      [] m.kind = "set_board" -> ParsedCapacities(m.args) # <<>>
      [] m.kind = "set_buffer" -> m.args[1].ok

\* The first access of the handler of m to the configuration: `set` and
\* `board` start with game_config (read), the others with game_config_mut.
FirstAccess(m) == IF m.kind \in SetKinds \cup {"board"} THEN "read" ELSE "write"

\* RwLock::read can return: no write guard is out.
can_read(lock) == lock.writers = {}

\* Mutant of can_write: the guard is handed out whoever holds one.
can_write_unchecked(lock) == TRUE

\* RwLock::write can return: no guard at all is out.
can_write(lock) == lock.writers = {} /\ lock.readers = {}

\* The guard of handler h is dropped.
Release(h) ==
    cfg_lock' = [writers |-> cfg_lock.writers \ {h},
                 readers |-> cfg_lock.readers \ {h}]

\* The handler returns.
Done(h) == hs' = [hs EXCEPT ![h] = IdleHandler]

\* The handler's task panics.
Panicked(h) == hs' = [hs EXCEPT ![h] = [IdleHandler EXCEPT !.pc = "panicked"]]

Goto(h, to) == hs' = [hs EXCEPT ![h].pc = to]

\* GameConfig::id.
GameConfig_id(g, ids) ==
    IF player_idx(g) < Len(ids)
    THEN [kind |-> "Some", id |-> ids[player_idx(g) + 1]]
    ELSE None

\* Mutant of GameConfig_reset: the player list is kept.
GameConfig_reset_keep_ids(g) ==
    /\ active' = FALSE
    /\ player_ids' = player_ids
    /\ Assign(reset(g))

\* GameConfig::reset.
GameConfig_reset(g) ==
    /\ active' = FALSE
    /\ player_ids' = <<>>
    /\ Assign(reset(g))

PlayInit ==
    /\ buckets = GameBoard_default.buckets
    /\ position = GameBoard_default.position
    /\ turn = GameBoard_default.turn
    /\ players = GameBoard_default.players
    /\ buffer_buckets = GameBoard_default.buffer_buckets
    /\ Idle
    /\ tstr = <<>>
    /\ tout = None
    /\ NoSession

\* A message arrives and a handler is dispatched for it.
Receive(h, m) ==
    /\ hs[h].pc = "idle"
    /\ hs' = [hs EXCEPT ![h] = [pc |-> "lookup", mode |-> FirstAccess(m), msg |-> m]]
    /\ UNCHANGED <<boardVars, evalVars, tokVars, games, active, cfg_steps,
                   player_ids, cfg_lock>>

\* game_config_lock, under the read lock of the data: the channel's entry is
\* looked up.
Lookup(h) ==
    /\ hs[h].pc = "lookup"
    /\ Goto(h, IF games THEN "lock" ELSE "insert")
    /\ UNCHANGED <<boardVars, evalVars, tokVars, games, active, cfg_steps,
                   player_ids, cfg_lock>>

\* game_config_lock, under the write lock of the data: GamesMap::insert, which
\* panics when the channel has an entry.
Insert(h) ==
    /\ hs[h].pc = "insert"
    /\ IF games
       THEN /\ Panicked(h)
            /\ UNCHANGED <<boardVars, games, active, cfg_steps, player_ids>>
       ELSE /\ games' = TRUE
            /\ active' = FALSE
            /\ cfg_steps' = DefaultSteps
            /\ player_ids' = <<>>
            /\ Assign(GameBoard_default)
            /\ Goto(h, "lock")
    /\ UNCHANGED <<evalVars, tokVars, cfg_lock>>

\* `game_config_lock.read().await` or `game_config_lock.write().await`.
Lock(h) ==
    /\ hs[h].pc = "lock"
    /\ IF hs[h].mode = "read"
       THEN /\ can_read(cfg_lock)
            /\ cfg_lock' = [cfg_lock EXCEPT !.readers = @ \cup {h}]
       ELSE /\ can_write(cfg_lock)
            /\ cfg_lock' = [cfg_lock EXCEPT !.writers = @ \cup {h}]
    /\ Goto(h, "held")
    /\ UNCHANGED <<boardVars, evalVars, tokVars, games, active, cfg_steps,
                   player_ids>>

\* `set`: `game_config!(|cfg| cfg.active)` and what the handler decides from
\* it and from parsing its components.
SetCheck(h) ==
    /\ hs[h].pc = "held"
    /\ hs[h].mode = "read"
    /\ hs[h].msg.kind \in SetKinds
    /\ Release(h)
    /\ IF active \/ ~NeedsWrite(hs[h].msg)
       THEN Done(h)
       ELSE hs' = [hs EXCEPT ![h].pc = "lookup", ![h].mode = "write"]
    /\ UNCHANGED <<boardVars, evalVars, tokVars, games, active, cfg_steps,
                   player_ids>>

\* `set`: the closure given to game_config_mut.
SetApply(h) ==
    LET m == hs[h].msg IN
    /\ hs[h].pc = "held"
    /\ hs[h].mode = "write"
    /\ m.kind \in SetKinds
    /\ CASE m.kind = "set_players" ->
              /\ players' = IF PlayersAccepted(m.args) THEN m.args ELSE players
              /\ UNCHANGED <<buckets, position, turn, buffer_buckets, cfg_steps>>
         [] m.kind = "set_steps" ->
              /\ cfg_steps' = m.args[1].num
              /\ UNCHANGED boardVars
         [] m.kind = "set_board" ->
              /\ Assign(reset_with(Self, ParsedCapacities(m.args)))
              /\ UNCHANGED cfg_steps
         [] m.kind = "set_buffer" ->
              /\ buffer_buckets' = m.args[1].num
              /\ UNCHANGED <<buckets, position, turn, players, cfg_steps>>
    /\ Release(h)
    /\ Done(h)
    /\ UNCHANGED <<evalVars, tokVars, games, active, player_ids>>

\* `play`.
Play(h) ==
    /\ hs[h].pc = "held"
    /\ hs[h].msg.kind = "play"
    /\ active' = TRUE
    /\ Release(h)
    /\ Done(h)
    /\ UNCHANGED <<boardVars, evalVars, tokVars, games, cfg_steps, player_ids>>

\* `board`.
ShowBoard(h) ==
    /\ hs[h].pc = "held"
    /\ hs[h].msg.kind = "board"
    /\ Release(h)
    /\ Done(h)
    /\ UNCHANGED <<boardVars, evalVars, tokVars, games, active, cfg_steps,
                   player_ids>>

\* `reset`.
ResetCmd(h) ==
    /\ hs[h].pc = "held"
    /\ hs[h].msg.kind = "reset"
    /\ IF active
       THEN GameConfig_reset(Self)
       ELSE UNCHANGED <<boardVars, active, player_ids>>
    /\ Release(h)
    /\ Done(h)
    /\ UNCHANGED <<evalVars, tokVars, games, cfg_steps>>

\* The string a move or a skip gives to eval: the empty one for a skip.
MoveContent(m) == IF m.kind = "skip" THEN <<>> ELSE m.content

\* A move or a skip: the closure given to game_config_mut, up to the call of
\* GameBoard::eval. The message is dropped when its author is not the one
\* bound to the slot on move, or is bound to another slot, or no game is on.
MoveBegin(h) ==
    LET m == hs[h].msg
        content == MoveContent(m)
        slot == GameConfig_id(Self, player_ids)
        dropped == \/ slot # None /\ slot.id # m.author
                   \/ slot = None /\ m.author \in Range(player_ids)
                   \/ ~active
    IN  /\ hs[h].pc = "held"
        /\ m.kind \in {"move", "skip"}
        /\ IF dropped
           THEN /\ Release(h)
                /\ Done(h)
                /\ UNCHANGED evalVars
           ELSE /\ EvalEnter(content, cfg_steps)
                /\ Goto(h, "evaluating")
                /\ UNCHANGED cfg_lock
        /\ UNCHANGED <<boardVars, tokVars, games, active, cfg_steps, player_ids>>

\* One iteration of run's loop inside the closure.
MoveRun(h) ==
    /\ hs[h].pc = "evaluating"
    /\ RunStep

\* A move or a skip: the closure from the return of GameBoard::eval on. After
\* a move that succeeded the author is bound to a slot if one is free, and
\* winners is called: the game is reset if there are winners, and the task
\* panics if winners does.
MoveEnd(h) ==
    LET g == IF pc = "new_failed" THEN Self ELSE eval_end(Self, backup, res)
        ids == IF Len(player_ids) < Len(g.players)
               THEN Append(player_ids, hs[h].msg.author)
               ELSE player_ids
    IN  /\ hs[h].pc = "evaluating"
        /\ pc \in {"run_done", "new_failed"}
        /\ Return
        /\ Release(h)
        /\ IF IsErr(res)
           THEN /\ Assign(g)
                /\ Done(h)
                /\ UNCHANGED <<active, player_ids>>
           ELSE \E out \in WinnersOutcomes(g) :
                   CASE out.kind = "Panic" ->
                          /\ Assign(g)
                          /\ player_ids' = ids
                          /\ Panicked(h)
                          /\ UNCHANGED active
                     [] out.kind = "None" ->
                          /\ Assign(g)
                          /\ player_ids' = ids
                          /\ Done(h)
                          /\ UNCHANGED active
                     [] out.kind = "Some" ->
                          /\ GameConfig_reset(g)
                          /\ Done(h)
        /\ UNCHANGED <<tokVars, games, cfg_steps>>

\* The task of a handler that panicked is over.
Unwind(h) ==
    /\ hs[h].pc = "panicked"
    /\ Done(h)
    /\ UNCHANGED <<boardVars, evalVars, tokVars, games, active, cfg_steps,
                   player_ids, cfg_lock>>

PlayNext ==
    \E h \in Handlers :
       \/ \E m \in Messages : Receive(h, m)
       \/ Lookup(h)
       \/ Insert(h)
       \/ Lock(h)
       \/ SetCheck(h)
       \/ SetApply(h)
       \/ Play(h)
       \/ ShowBoard(h)
       \/ ResetCmd(h)
       \/ MoveBegin(h)
       \/ MoveRun(h)
       \/ MoveEnd(h)
       \/ Unwind(h)

SpecPlay == PlayInit /\ [][PlayNext]_vars


\* ------------------------------------------------------------------ claims

\* eval is about to return the result res.
Returning == pc \in {"run_done", "new_failed"}

\* C1. Atomicity of eval: when eval returns an error, whichever, the buckets
\* (counters, locked flag, capacity), the position and the turn are what they
\* were when eval was called, whatever run did to them before it failed.
C1_Atomicity ==
    [][(Returning /\ IsErr(res)) =>
          /\ pc' = "idle"
          /\ buckets' = before.buckets
          /\ position' = before.position
          /\ turn' = before.turn]_vars

\* A run that pushed a counter and moved the position has failed, and eval has
\* not returned yet.
C1_Witness ==
    /\ pc = "run_done"
    /\ IsErr(res)
    /\ buckets # before.buckets
    /\ position # before.position

\* C2. The turn: a successful eval increases turn by exactly one, a failed
\* eval leaves it as it was, and no step of a call of eval changes it but the
\* end of a successful one.
C2_Turn ==
    [][/\ pc # "idle" => turn = before.turn
       /\ (Returning /\ ~IsErr(res)) => turn' = turn + 1
       /\ (Returning /\ IsErr(res)) => turn' = turn
       /\ (pc # "idle" \/ pc' # "idle") => turn' >= turn
       /\ ((pc # "idle" \/ pc' # "idle") /\ turn' # turn) =>
             (pc = "run_done" /\ ~IsErr(res))]_vars

\* A second move is about to be committed.
C2_Witness ==
    /\ pc = "run_done"
    /\ ~IsErr(res)
    /\ turn >= 1
    /\ buckets # before.buckets

\* C3. Length law: a tokenized program has as many instructions as the move
\* has non-whitespace characters, k; on turn t it fails the length check iff
\* k > t + 1, and then eval returns Length{len: k, turn: t + 1} with no
\* instruction executed, whatever the step budget.
C3_LengthLaw ==
    pc \in {"run", "run_done"} =>
       /\ bf_len(bf) = nchars
       /\ (pc = "run_done" /\ res.kind = "Length") <=> nchars > before.turn + 1
       /\ nchars > before.turn + 1 =>
             /\ res = [kind |-> "Length", len |-> nchars, turn |-> before.turn + 1]
             /\ iter = 0
             /\ bf.pointer = 0
             /\ Self = before

\* On the first turn a move of two instructions is rejected with a step
\* budget of 0.
C3_Witness ==
    /\ pc = "run_done"
    /\ res = [kind |-> "Length", len |-> 2, turn |-> 1]
    /\ nchars = 2
    /\ before.turn = 0
    /\ steps = 0

\* All counters of the bucket carry the same player.
Homogeneous(b) == \A i, j \in 1..Len(b.counters) : b.counters[i] = b.counters[j]

\* C4. Bucket invariant: in every state, those inside a run included, every
\* bucket holds at most capacity counters, and a locked bucket is full of the
\* counters of one player.
C4_BucketInvariant ==
    \A k \in 1..Len(buckets) :
       /\ 0 <= fill(buckets[k])
       /\ fill(buckets[k]) <= capacity(buckets[k])
       /\ buckets[k].locked =>
             /\ fill(buckets[k]) = capacity(buckets[k])
             /\ Homogeneous(buckets[k])

\* Inside a run, one bucket has just been locked and another is full of the
\* counters of two players.
C4_Witness ==
    /\ pc = "run"
    /\ \E k \in 1..Len(buckets) : buckets[k].locked /\ ~before.buckets[k].locked
    /\ \E k \in 1..Len(buckets) :
          /\ free(buckets[k]) = 0
          /\ ~Homogeneous(buckets[k])
          /\ ~buckets[k].locked

\* C5. Lock irreversibility: a push on a locked bucket fails with LockedIncr
\* and a pop with LockedDecr, the bucket unchanged; no step of run changes a
\* locked bucket; and a bucket that was locked when eval was called is the
\* same bucket when eval returns.
C5_LockIrreversible ==
    [][/\ \A k \in 1..Len(buckets) :
            buckets[k].locked =>
               /\ \A p \in PlayerSyms :
                     Bucket_push(buckets[k], p, k - 1) =
                        [bucket |-> buckets[k],
                         res |-> [kind |-> "LockedIncr", position |-> k - 1]]
               /\ Bucket_pop(buckets[k], k - 1) =
                     [bucket |-> buckets[k],
                      res |-> [kind |-> "LockedDecr", position |-> k - 1]]
               /\ pc = "run" => buckets'[k] = buckets[k]
       /\ (pc = "run" /\ iter < steps /\ bf_has_token(bf)
             /\ bucket(Self).locked /\ bf_read(bf).type = "Command") =>
               /\ bf_read(bf).cmd = "Increment" =>
                     /\ pc' = "run_done"
                     /\ res' = [kind |-> "LockedIncr", position |-> position]
               /\ bf_read(bf).cmd = "Decrement" =>
                     /\ pc' = "run_done"
                     /\ res' = [kind |-> "LockedDecr", position |-> position]
       /\ Returning =>
             \A k \in 1..Len(before.buckets) :
                before.buckets[k].locked =>
                   /\ k \in 1..Len(buckets')
                   /\ buckets'[k] = before.buckets[k]]_vars

\* A move is about to push on or pop from a bucket locked by an earlier move.
C5_Witness ==
    /\ pc = "run"
    /\ iter < steps
    /\ bf_has_token(bf)
    /\ bf_read(bf).type = "Command"
    /\ bf_read(bf).cmd \in {"Increment", "Decrement"}
    /\ bucket(Self).locked
    /\ before.buckets[position + 1].locked

\* C6. Position invariant: whenever no call of eval is in flight (after
\* construction, after every eval, failed or not, and every reset),
\* 0 <= position < bucket_count.
C6_PositionInvariant ==
    pc = "idle" => (0 <= position /\ position < Len(buckets))

\* A failed MoveRight has left position = bucket_count inside run.
C6_Witness ==
    /\ pc = "run_done"
    /\ res.kind = "OverBounds"
    /\ position = Len(buckets)
    /\ before.position = Len(buckets) - 1
    /\ Len(buckets) >= 2

\* The lock threshold of winners, in unbounded arithmetic.
ThresholdMet(g) == locked_buckets(g) >= bucket_count(g) - g.buffer_buckets

\* The number of buckets whose first counter is p; an empty bucket has none.
Tally(g, p) ==
    Cardinality({k \in 1..Len(g.buckets) :
                    ~is_empty(g.buckets[k]) /\ g.buckets[k].counters[1] = p})

\* The players whose tally is maximal.
MaxTallyPlayers(g) ==
    {p \in PlayerSyms :
        Tally(g, p) > 0 /\ \A q \in PlayerSyms : Tally(g, q) <= Tally(g, p)}

\* C7. winners() does not fault on an empty bucket: when the lock threshold is
\* met and some bucket has no counters, winners() returns the players of
\* maximal tally, the empty bucket counting for nobody.
C7_NoFaultOnEmptyBucket ==
    (pc = "idle" /\ ThresholdMet(Self) /\ HasEmptyBucket(Self)) =>
       \A out \in WinnersOutcomes(Self) :
          /\ out.kind = "Some"
          /\ Range(out.winners) = MaxTallyPlayers(Self)

\* C8. Win threshold: winners() returns None iff the number of locked buckets
\* is less than bucket_count - buffer_buckets, and a Winners value in every
\* other state.
C8_WinThreshold ==
    pc = "idle" =>
       \A out \in WinnersOutcomes(Self) :
          /\ out.kind = "None" <=> ~ThresholdMet(Self)
          /\ ThresholdMet(Self) => out.kind = "Some"

\* C9. Win-tie enumeration: when the threshold is met, winners() returns
\* exactly the players whose tally is maximal, each of them once. Stated on
\* the boards where some bucket holds a counter, so that a maximal tally exists.
C9_TieEnumeration ==
    (pc = "idle" /\ ThresholdMet(Self) /\ MaxTallyPlayers(Self) # {}) =>
       \A out \in WinnersOutcomes(Self) :
          /\ out.kind = "Some"
          /\ Range(out.winners) = MaxTallyPlayers(Self)
          /\ Len(out.winners) = Cardinality(MaxTallyPlayers(Self))

\* The pairs <<i, t>> of a token sequence: a JumpIfZero{target: t} of index i.
Pairs(tokens) ==
    {<<i, tokens[i + 1].target>> :
        i \in {j \in 0..(Len(tokens) - 1) : tokens[j + 1].type = "JumpIfZero"}}

\* C10. Jump-target duality: in a tokenized program every JumpIfZero{t} of
\* index i has i < t < len and JumpIfNonzero{i} at index t, every
\* JumpIfNonzero{i} of index t has 0 <= i < t and JumpIfZero{t} at index i,
\* and no two pairs cross.
C10_JumpDuality ==
    (tout # None /\ ~IsErr(tout.res)) =>
       LET tokens == tout.bf.tokens
           n == Len(tokens)
       IN  /\ \A i \in 0..(n - 1) :
                 tokens[i + 1].type = "JumpIfZero" =>
                    LET t == tokens[i + 1].target
                    IN  /\ i < t
                        /\ t < n
                        /\ tokens[t + 1] = JumpIfNonzero(i)
           /\ \A t \in 0..(n - 1) :
                 tokens[t + 1].type = "JumpIfNonzero" =>
                    LET i == tokens[t + 1].target
                    IN  /\ 0 <= i
                        /\ i < t
                        /\ tokens[i + 1] = JumpIfZero(t)
           /\ \A p, q \in Pairs(tokens) :
                 p[1] < q[1] => (p[2] < q[1] \/ q[2] < p[2])

\* A program with one pair of brackets inside another has been tokenized.
C10_Witness ==
    /\ tout # None
    /\ ~IsErr(tout.res)
    /\ \E p, q \in Pairs(tout.bf.tokens) : p[1] < q[1] /\ q[2] < p[2]

\* The characters of a Brainfuck program.
Alphabet == {"+", "-", "<", ">", "[", "]"}

\* The characters of s that are not the space, in order.
RECURSIVE Stripped(_)
Stripped(s) ==
    IF s = <<>> THEN <<>>
    ELSE IF Head(s) = " " THEN Stripped(Tail(s))
    ELSE <<Head(s)>> \o Stripped(Tail(s))

\* How many of chars[a], .., chars[b] are c.
Occ(chars, c, a, b) == Cardinality({k \in a..b : chars[k] = c})

Min(S) == CHOOSE x \in S : \A y \in S : x <= y

\* The 1-based places of the characters of chars outside the alphabet.
Invalids(chars) == {k \in 1..Len(chars) : chars[k] \notin Alphabet}

\* The 1-based places of the right brackets with no left bracket pending; the
\* least of them is the first one a left-to-right scan meets.
UnmatchedRights(chars) ==
    {k \in 1..Len(chars) :
        /\ chars[k] = "]"
        /\ Occ(chars, "[", 1, k - 1) <= Occ(chars, "]", 1, k - 1)}

\* The 1-based places of the left brackets that no later right bracket closes.
UnmatchedLefts(chars) ==
    {k \in 1..Len(chars) :
        /\ chars[k] = "["
        /\ \A j \in (k + 1)..Len(chars) :
              Occ(chars, "]", k + 1, j) <= Occ(chars, "[", k + 1, j)}

\* C11. Unmatched left bracket: a move of valid characters that ends with
\* left brackets unmatched fails with MismatchedLeft{idx}, idx the 0-based
\* position of the oldest (leftmost) unmatched left bracket.
C11_OldestUnmatchedLeft ==
    LET chars == Stripped(tstr)
    IN  (/\ tout # None
         /\ Invalids(chars) = {}
         /\ UnmatchedRights(chars) = {}
         /\ UnmatchedLefts(chars) # {}) =>
            tout.res = [kind |-> "MismatchedLeft",
                        idx |-> Min(UnmatchedLefts(chars)) - 1]

\* C12. Unmatched right bracket: the first right bracket met while no left
\* bracket is pending makes tokenizing fail with MismatchedRight{idx}, idx its
\* 0-based position among the non-whitespace characters, and what follows it
\* is not examined: the result is that of the string cut after the bracket.
C12_MismatchedRight ==
    LET chars == Stripped(tstr)
    IN  (tout # None /\ UnmatchedRights(chars) # {}) =>
           LET k == Min(UnmatchedRights(chars))
           IN  Invalids(chars) \cap 1..(k - 1) = {} =>
                  /\ tout.res = [kind |-> "MismatchedRight", idx |-> k - 1]
                  /\ tout = Brainfuck_new(SubSeq(chars, 1, k))

\* A right bracket of index 2 with nothing pending has been met, and the
\* character after it is not one of the alphabet.
C12_Witness ==
    /\ tout # None
    /\ tout.res = [kind |-> "MismatchedRight", idx |-> 2]
    /\ Len(tstr) = 4
    /\ tstr[4] = "a"

\* C13 as stated: whitespace counts neither toward the length nor toward the
\* indices, strings that differ only in whitespace give the same result, and
\* the first non-whitespace character outside the alphabet makes tokenizing
\* fail with InvalidChar{c, idx}, whatever precedes it.
C13_InvalidCharAlways ==
    LET chars == Stripped(tstr)
    IN  tout # None =>
           /\ tout = Brainfuck_new(chars)
           /\ ~IsErr(tout.res) => Len(tout.bf.tokens) = Len(chars)
           /\ Invalids(chars) # {} =>
                 LET k == Min(Invalids(chars))
                 IN  tout.res = [kind |-> "InvalidChar", c |-> chars[k],
                                 idx |-> k - 1]

\* C13, amended. Whitespace counts neither toward the length nor toward the
\* indices, strings that differ only in whitespace give the same result, and
\* the first non-whitespace character outside the alphabet makes tokenizing
\* fail with InvalidChar{c, idx}, idx its position among the non-whitespace
\* characters, unless a right bracket with no left bracket pending precedes it.
C13_Whitespace ==
    LET chars == Stripped(tstr)
    IN  tout # None =>
           /\ tout = Brainfuck_new(chars)
           /\ ~IsErr(tout.res) => Len(tout.bf.tokens) = Len(chars)
           /\ Invalids(chars) # {} =>
                 LET k == Min(Invalids(chars))
                 IN  UnmatchedRights(chars) \cap 1..(k - 1) = {} =>
                        tout.res = [kind |-> "InvalidChar", c |-> chars[k],
                                    idx |-> k - 1]

\* A string with whitespace before and inside it has failed on its second
\* non-whitespace character.
C13_Witness ==
    /\ tout # None
    /\ tout.res = [kind |-> "InvalidChar", c |-> "a", idx |-> 1]
    /\ tstr[1] = " "
    /\ tstr[3] = " "

\* C14. MaxSteps is returned only when the program counter is still inside
\* the program once the budget is used up; a program whose counter is past
\* the end by then (n instructions run with budget n, the empty program with
\* budget 0) succeeds.
C14_MaxStepsOnlyInside ==
    (pc = "run_done" /\ res = [kind |-> "MaxSteps"]) => bf_has_token(bf)

\* run is in its loop, or has left it, on the program `[]` entered with a
\* non-empty active bucket.
LoopsForever ==
    /\ pc \in {"run", "run_done"}
    /\ res.kind # "Length"
    /\ bf.tokens = <<JumpIfZero(1), JumpIfNonzero(0)>>
    /\ ~is_empty(before.buckets[before.position + 1])

\* C15. Step-budget exactness: the program `[]` entered with a non-empty
\* active bucket, run with budget N, executes exactly N instructions, one per
\* iteration whichever branch is taken (the pointer alternates between the
\* two brackets), and then fails with MaxSteps, for every N; and whenever run
\* fails with MaxSteps exactly `steps` instructions have been executed.
C15_BudgetExact ==
    /\ (pc = "run_done" /\ res = [kind |-> "MaxSteps"]) => iter = steps
    /\ LoopsForever =>
          /\ iter <= steps
          /\ bf.pointer = iter % 2
          /\ pc = "run_done" => (res = [kind |-> "MaxSteps"] /\ iter = steps)

\* `[]` on a non-empty bucket has used up the largest budget.
C15_Witness ==
    /\ LoopsForever
    /\ pc = "run_done"
    /\ res = [kind |-> "MaxSteps"]
    /\ steps = MaxBudget
    /\ iter = MaxBudget

\* run has left its loop after executing, or failing to execute, the first
\* instruction of a program.
FirstExecuted ==
    /\ pc = "run_done"
    /\ res.kind # "Length"
    /\ steps >= 1
    /\ Len(bf.tokens) >= 1

\* C16 as stated: on a single-bucket board `>` fails with OverBounds, and on
\* any board, in any state earlier committed moves have led to, a move whose
\* first instruction is `<` fails with UnderBounds.
C16_LeftAlwaysFails ==
    /\ (FirstExecuted /\ bf.tokens[1] = Command("MoveRight")
           /\ Len(before.buckets) = 1) => res = [kind |-> "OverBounds"]
    /\ (FirstExecuted /\ bf.tokens[1] = Command("MoveLeft")) =>
           res = [kind |-> "UnderBounds"]

\* C16, amended. On a single-bucket board `>` fails with OverBounds; on any
\* board on which the position is 0 when the move starts, a move whose first
\* instruction is `<` fails with UnderBounds (the program being within the
\* length limit and the step budget at least 1).
C16_Bounds ==
    /\ (FirstExecuted /\ bf.tokens[1] = Command("MoveRight")
           /\ Len(before.buckets) = 1) => res = [kind |-> "OverBounds"]
    /\ (FirstExecuted /\ bf.tokens[1] = Command("MoveLeft")
           /\ before.position = 0) => res = [kind |-> "UnderBounds"]

\* After committed moves, on a board of several buckets, a move that starts
\* with `<` has failed with UnderBounds.
C16_Witness ==
    /\ FirstExecuted
    /\ bf.tokens[1] = Command("MoveLeft")
    /\ res = [kind |-> "UnderBounds"]
    /\ before.turn >= 1
    /\ Len(before.buckets) >= 2
    /\ \E k \in 1..Len(before.buckets) : ~is_empty(before.buckets[k])

\* The buckets after the step are empty and unlocked and have the capacities
\* caps, the position and the turn are 0, the players and the buffer count
\* are those before the step.
AfterReset(caps) ==
    /\ Len(buckets') = Len(caps)
    /\ \A k \in 1..Len(caps) :
          /\ buckets'[k].counters = <<>>
          /\ ~buckets'[k].locked
          /\ buckets'[k].capacity = caps[k]
    /\ position' = 0
    /\ turn' = 0
    /\ players' = players
    /\ buffer_buckets' = buffer_buckets

\* C19. reset leaves every bucket empty and unlocked, the position and the
\* turn 0, and the bucket count, each capacity, the players and the buffer
\* count unchanged; reset_with(capacities) does the same except that the row
\* is replaced by empty buckets of the given capacities.
C19_ResetFrame ==
    [][/\ Reset => AfterReset([k \in 1..Len(buckets) |-> buckets[k].capacity])
       /\ \A caps \in CapacityLists : ResetWith(caps) => AfterReset(caps)]_vars

\* Between two moves the board has a locked bucket, a position and a turn
\* other than 0, players and a buffer count other than the default ones: a
\* board on which reset and reset_with have everything to undo and to keep.
C19_Witness ==
    /\ pc = "idle"
    /\ \E k \in 1..Len(buckets) : buckets[k].locked
    /\ position > 0
    /\ turn > 0
    /\ players # DefaultPlayers
    /\ buffer_buckets > 0

\* C20. Whenever winners returns Some(winners), in either build and in any
\* iteration order, the winners are not empty and each of them tags at least
\* one counter now on the board.
C20_WinnersOnBoard ==
    pc = "idle" =>
       \A out \in WinnersOutcomes(Self) :
          out.kind = "Some" =>
             /\ out.winners # <<>>
             /\ \A p \in Range(out.winners) :
                   \E k \in 1..Len(buckets) : p \in Range(buckets[k].counters)

\* winners returns two tied players on the current board.
C20_Witness ==
    /\ pc = "idle"
    /\ \E out \in WinnersOutcomes(Self) :
          out.kind = "Some" /\ Len(out.winners) = 2

\* The handlers that are inside a closure given to game_config_mut: an
\* evaluation, a reset or a reconfiguration of the channel's board in flight.
InFlight == {h \in Handlers : hs[h].pc = "evaluating"
                                 \/ (hs[h].pc = "held" /\ hs[h].mode = "write")}

\* The handlers that are inside a closure given to game_config, reading the
\* configuration and its board.
Observing == {h \in Handlers : hs[h].pc = "held" /\ hs[h].mode = "read"}

\* C17. Mutual exclusion per board: the evaluations, resets and
\* reconfigurations of the channel's board are serialized by the write lock of
\* its configuration. At most one is in flight, it holds the only guard, and
\* while an evaluation is between its snapshot and its commit or rollback no
\* other handler is reading or writing the configuration.
C17_MutualExclusion ==
    /\ Cardinality(InFlight) <= 1
    /\ cfg_lock.writers = InFlight
    /\ cfg_lock.readers = Observing
    /\ InFlight # {} => Observing = {}
    /\ pc # "idle" => \E h \in Handlers :
                         /\ hs[h].pc = "evaluating"
                         /\ InFlight = {h}
                         /\ Observing = {}

\* An evaluation has changed the board and has not returned yet, and the
\* other handler is waiting for a guard of the same configuration.
C17_Witness ==
    /\ pc = "run"
    /\ buckets # before.buckets
    /\ \E h, w \in Handlers :
          /\ hs[h].pc = "evaluating"
          /\ hs[w].pc = "lock"

\* The capacities of the buckets of the board.
Capacities(bs) == [k \in 1..Len(bs) |-> bs[k].capacity]

\* C18. Configuration frozen while active: under every interleaving of the
\* handlers, no step taken while the game is active changes the players, the
\* step budget, the capacities of the buckets or the buffer count.
C18_FrozenWhileActive ==
    [][active =>
          /\ players' = players
          /\ cfg_steps' = cfg_steps
          /\ Capacities(buckets') = Capacities(buckets)
          /\ buffer_buckets' = buffer_buckets]_vars

\* The next step of run executes the instruction instr.
Executes(instr) ==
    /\ pc = "run"
    /\ iter # steps
    /\ bf.pointer < Len(bf.tokens)
    /\ bf.tokens[bf.pointer + 1] = instr

\* The player on move at turn t with the players ps.
OnMove(ps, t) == ps[(t % Len(ps)) + 1]

\* C21. Push into the last free slot: with exactly one slot free, push appends
\* the counter and succeeds, and the bucket is locked afterwards if and only
\* if every counter, the new one included, is the player's; in the mixed case
\* the bucket is full and unlocked, so that a later push fails with Overflow
\* and a later pop succeeds. With two or more slots free push appends and
\* does not lock.
C21_PushLastSlot ==
    [][Executes(Command("Increment")) =>
          LET b == buckets[position + 1]
              p == OnMove(players, turn)
              slots == b.capacity - Len(b.counters)
              after == buckets'[position + 1]
          IN  /\ slots >= 1 =>
                    /\ res' = Ok
                    /\ after.counters = Append(b.counters, p)
                    /\ after.capacity = b.capacity
              /\ slots = 1 =>
                    /\ after.locked <=>
                          \A k \in 1..Len(after.counters) : after.counters[k] = p
                    /\ ~after.locked =>
                          /\ Bucket_push(after, p, position).res
                                = [kind |-> "Overflow", position |-> position]
                          /\ Bucket_pop(after, position).res = Ok
              /\ slots >= 2 => ~after.locked]_vars

\* A push has just filled a bucket with counters of two players, and the
\* bucket is not locked.
C21_Witness ==
    /\ pc = "run"
    /\ iter = 1
    /\ bf.tokens[1] = Command("Increment")
    /\ LET b == buckets[position + 1]
       IN  /\ Len(b.counters) = b.capacity
           /\ ~b.locked
           /\ \E i, j \in 1..Len(b.counters) : b.counters[i] # b.counters[j]
           /\ Len(before.buckets[position + 1].counters) = b.capacity - 1

\* C22. Bucket failure kinds: push on a full bucket fails with LockedIncr if
\* the bucket is locked and with Overflow if not; pop on an empty bucket
\* fails with Underflow, pop on a locked bucket with LockedDecr, and any other
\* pop removes the counter appended last; a push or a pop that fails leaves
\* the buckets as they were.
C22_BucketFailures ==
    [][LET b == buckets[position + 1]
           after == buckets'[position + 1]
       IN  /\ (Executes(Command("Increment")) /\ Len(b.counters) = b.capacity) =>
                 /\ res'.kind = IF b.locked THEN "LockedIncr" ELSE "Overflow"
                 /\ buckets' = buckets
           /\ Executes(Command("Decrement")) =>
                 IF b.counters = <<>>
                 THEN res'.kind = "Underflow" /\ buckets' = buckets
                 ELSE IF b.locked
                 THEN res'.kind = "LockedDecr" /\ buckets' = buckets
                 ELSE /\ res' = Ok
                      /\ after.counters
                            = SubSeq(b.counters, 1, Len(b.counters) - 1)
                      /\ after.locked = b.locked
                      /\ after.capacity = b.capacity
                      /\ \A k \in 1..Len(buckets) :
                            k # position + 1 => buckets'[k] = buckets[k]]_vars

\* A pop has just taken the newer of the two counters, of different players,
\* of a bucket.
C22_Witness ==
    /\ pc = "run"
    /\ iter = 1
    /\ bf.tokens[1] = Command("Decrement")
    /\ LET old == before.buckets[position + 1].counters
       IN  /\ Len(old) = 2
           /\ old[1] # old[2]
           /\ buckets[position + 1].counters = <<old[1]>>

\* C23. Player on move: while a call of eval made at turn t runs, the turn and
\* the players do not change, and every counter the call has appended carries
\* the tag players[t mod len(players)]: each bucket holds counters it held
\* before the call, from the bottom up, and above them only counters of that
\* player. With the turn advancing by one at each committed move, the moves
\* cycle through the players in list order.
C23_PlayerOnMove ==
    pc \in {"run", "run_done"} =>
       /\ turn = before.turn
       /\ players = before.players
       /\ \A k \in 1..Len(buckets) :
             LET old == before.buckets[k].counters
                 new == buckets[k].counters
             IN  \E j \in 0..Len(old) :
                    /\ j <= Len(new)
                    /\ SubSeq(new, 1, j) = SubSeq(old, 1, j)
                    /\ \A i \in (j + 1)..Len(new) :
                          new[i] = OnMove(before.players, before.turn)

\* With two players, the move of turn 2 has appended a counter of the first
\* player: the order has wrapped around.
C23_Witness ==
    /\ pc = "run_done"
    /\ res = Ok
    /\ before.turn = 2
    /\ before.players = <<"X", "O">>
    /\ \E k \in 1..Len(buckets) :
          /\ Len(buckets[k].counters) > Len(before.buckets[k].counters)
          /\ Last(buckets[k].counters) = "X"

\* The next step of run executes an instruction.
Running ==
    /\ pc = "run"
    /\ iter # steps
    /\ bf.pointer < Len(bf.tokens)

\* C24. Jump semantics: executing JumpIfZero{target} sets the program counter
\* to target when the active bucket is empty and to pc + 1 when it is not;
\* JumpIfNonzero{target} sets it to target when the active bucket is not empty
\* and to pc + 1 when it is; neither changes a bucket or the position.
C24_JumpSemantics ==
    [][(Running /\ bf.tokens[bf.pointer + 1].type # "Command") =>
          LET instr == bf.tokens[bf.pointer + 1]
              empty == buckets[position + 1].counters = <<>>
              taken == IF instr.type = "JumpIfZero" THEN empty ELSE ~empty
          IN  /\ bf'.pointer = IF taken THEN instr.target ELSE bf.pointer + 1
              /\ bf'.tokens = bf.tokens
              /\ buckets' = buckets
              /\ position' = position
              /\ res' = Ok]_vars

\* A loop with a body met an empty bucket: the left bracket has just jumped
\* over the body to the right one.
C24_Witness ==
    /\ pc = "run"
    /\ iter = 1
    /\ bf.tokens[1] = JumpIfZero(2)
    /\ bf.pointer = 2
    /\ buckets[position + 1].counters = <<>>

\* C25. Pointer moves: MoveLeft at position 0 fails with UnderBounds and
\* otherwise decrements the position; MoveRight at the last bucket fails with
\* OverBounds and otherwise increments it; neither changes a bucket; and the
\* position a committed move has reached is kept by the commit and is the
\* position the next call of eval starts from.
C25_PointerMoves ==
    [][/\ Executes(Command("MoveLeft")) =>
             /\ buckets' = buckets
             /\ IF position = 0
                THEN res' = [kind |-> "UnderBounds"]
                ELSE res' = Ok /\ position' = position - 1
       /\ Executes(Command("MoveRight")) =>
             /\ buckets' = buckets
             /\ IF position = Len(buckets) - 1
                THEN res' = [kind |-> "OverBounds"]
                ELSE res' = Ok /\ position' = position + 1
       /\ (pc = "run_done" /\ res = Ok) => position' = position
       /\ (pc = "idle" /\ pc' # "idle") => position' = position]_vars

\* A move that started at position 1, where an earlier move had left the
\* pointer, has moved it back to 0.
C25_Witness ==
    /\ pc = "run"
    /\ iter = 1
    /\ bf.tokens[1] = Command("MoveLeft")
    /\ before.turn >= 1
    /\ before.position = 1
    /\ position = 0

TokenizerErrors == {"InvalidChar", "MismatchedRight", "MismatchedLeft"}

\* C26. Error precedence in eval: a tokenizer error is returned before the
\* length is looked at, so a Length error is only ever reported for a string
\* that tokenized, all of its characters being instructions; and the Length
\* error is returned before any instruction runs, so a move longer than
\* turn + 1 reports nothing but a tokenizer error or Length and leaves the
\* board untouched.
C26_ErrorPrecedence ==
    /\ pc = "new_failed" => res.kind \in TokenizerErrors
    /\ (Returning /\ res.kind = "Length") =>
          /\ Len(bf.tokens) = nchars
          /\ res = [kind |-> "Length", len |-> nchars, turn |-> before.turn + 1]
    /\ (Returning /\ nchars > before.turn + 1) =>
          /\ res.kind \in TokenizerErrors \cup {"Length"}
          /\ iter = 0
          /\ buckets = before.buckets
          /\ position = before.position
    /\ pc = "run" => nchars <= before.turn + 1

\* A move that is both malformed and longer than turn + 1 is about to return
\* the tokenizer's error.
C26_Witness ==
    /\ pc = "new_failed"
    /\ nchars > before.turn + 1
    /\ res.kind \in TokenizerErrors

\* C27. Termination: every call of eval returns, and run never executes more
\* instructions than its step budget, whatever the program, loops that never
\* exit included.
C27_Termination ==
    /\ [](iter <= steps)
    /\ (pc # "idle") ~> (pc = "idle")

\* The largest budget has been used up inside a loop that does not exit.
C27_Witness ==
    /\ pc = "run"
    /\ steps = MaxBudget
    /\ iter = steps
    /\ bf.pointer < Len(bf.tokens)
    /\ bf.tokens[bf.pointer + 1].type # "Command"

BucketErrors == {"Overflow", "Underflow", "LockedIncr", "LockedDecr"}

\* C28. Error position payload: an Overflow, Underflow, LockedIncr or
\* LockedDecr error comes from a step of run that executes + or -, carries the
\* 0-based index of the bucket that was active at that step, and is the error
\* eval is about to return.
C28_ErrorPosition ==
    [][(pc = "run" /\ pc' = "run_done" /\ res'.kind \in BucketErrors) =>
          /\ Executes(Command("Increment")) \/ Executes(Command("Decrement"))
          /\ res'.kind \in {"Overflow", "LockedIncr"} <=> Executes(Command("Increment"))
          /\ res' = [kind |-> res'.kind, position |-> position]]_vars

\* A move that started at bucket 0 has moved right and failed to pop from the
\* empty bucket 1.
C28_Witness ==
    /\ pc = "run_done"
    /\ res = [kind |-> "Underflow", position |-> 1]
    /\ before.position = 0
    /\ position = 1

\* C29. Frame of a committed move: when eval returns from a successful run,
\* the board has as many buckets as when eval was called, with the same
\* capacities, the same players and the same buffer_buckets, and every bucket
\* the pointer was never on during the run, its start included, is what it
\* was; no step of run changes any of these either.
C29_CommitFrame ==
    [][/\ (pc = "run_done" /\ ~IsErr(res)) =>
             /\ Len(buckets') = Len(before.buckets)
             /\ Capacities(buckets') = Capacities(before.buckets)
             /\ players' = before.players
             /\ buffer_buckets' = before.buffer_buckets
             /\ \A k \in 1..Len(before.buckets) :
                   (k - 1) \notin visited => buckets'[k] = before.buckets[k]
       /\ pc = "run" =>
             /\ Capacities(buckets') = Capacities(buckets)
             /\ players' = players
             /\ buffer_buckets' = buffer_buckets
             /\ \A k \in 1..Len(buckets) :
                   (k - 1) \notin visited' => buckets'[k] = buckets[k]]_vars

\* A move that started on bucket 1 and stayed there has pushed a counter and
\* is about to be committed; bucket 0 was never visited.
C29_Witness ==
    /\ pc = "run_done"
    /\ res = Ok
    /\ visited = {1}
    /\ before.position = 1
    /\ buckets[2] # before.buckets[2]
    /\ buckets[1] = before.buckets[1]

\* C30. Skip / empty move: on any turn, eval of a move with no character but
\* whitespace starts a run of the empty program; with a step budget of at
\* least 1 the run succeeds at once and touches nothing, and eval returns
\* with every bucket and the position as they were and the turn one higher.
\* The content evaluated for a skip message is such a move.
C30_SkipMove ==
    [][/\ (pc = "idle" /\ pc' # "idle" /\ nchars' = 0) =>
             /\ pc' = "run"
             /\ bf'.tokens = <<>>
       /\ (pc = "run" /\ nchars = 0 /\ steps >= 1) =>
             /\ pc' = "run_done"
             /\ res' = Ok
             /\ buckets' = buckets
             /\ position' = position
             /\ turn' = turn
       /\ (pc = "run_done" /\ nchars = 0 /\ steps >= 1) =>
             /\ buckets' = before.buckets
             /\ position' = before.position
             /\ turn' = before.turn + 1
       /\ \A m \in Messages :
             m.kind = "skip" =>
                LET s == MoveContent(m)
                    start == eval_start(Self, Tokenized[s], Len(NonWhitespace(s)))
                IN  /\ Len(NonWhitespace(s)) = 0
                    /\ start.pc = "run"
                    /\ start.bf.tokens = <<>>]_vars

\* An empty move with budget 1, on a later turn with the pointer away from
\* bucket 0 and counters on the board, has run and is about to be committed.
C30_Witness ==
    /\ pc = "run_done"
    /\ nchars = 0
    /\ steps = 1
    /\ res = Ok
    /\ before.turn >= 1
    /\ before.position = 1
    /\ \E k \in 1..Len(buckets) : buckets[k].counters # <<>>

\* C31. Threshold arithmetic: on every board and with every buffer_buckets
\* value the reconfiguration accepts, win_bucket_count returns a value, with
\* no panic on underflow and no wrap-around: bucket_count - buffer_buckets
\* when buffer_buckets is not more than bucket_count, and otherwise a
\* threshold that the number of locked buckets always meets.
C31_ThresholdArithmetic ==
    pc = "idle" =>
       \A checks \in BOOLEAN :
          LET w == win_bucket_count(Self, checks)
          IN  /\ w.kind = "Value"
              /\ buffer_buckets <= bucket_count(Self) =>
                    w.value = bucket_count(Self) - buffer_buckets
              /\ buffer_buckets >= bucket_count(Self) =>
                    ~(locked_buckets(Self) < w.value)

\* The board g has no counter, no locked bucket, and is at turn 0, position 0.
Fresh(g) ==
    /\ g.turn = 0
    /\ g.position = 0
    /\ \A k \in 1..Len(g.buckets) :
          g.buckets[k].counters = <<>> /\ ~g.buckets[k].locked

\* C32. Game session life cycle: eval is in flight only while the game is
\* active; `play` on an active game changes nothing; when eval returns from a
\* successful run and winners() returns a result on the committed board, the
\* handler, which holds the write guard, resets the game in that step (active
\* false, no player bound, board emptied, turn 0, position 0); and every
\* inactive game has an empty board at turn 0 and position 0 and no player
\* bound.
C32_LifeCycle ==
    [][/\ pc # "idle" => active
       /\ (games /\ ~active) => (Fresh(Self) /\ player_ids = <<>>)
       /\ \A h \in Handlers :
             (hs[h].pc = "held" /\ hs[h].msg.kind = "play" /\ active
                 /\ hs'[h] # hs[h]) =>
                UNCHANGED <<boardVars, evalVars, games, active, cfg_steps, player_ids>>
       /\ (Returning /\ ~IsErr(res) /\ pc' = "idle"
             /\ \A out \in WinnersOutcomes(next_turn(Self)) : out.kind = "Some") =>
                /\ \E h \in Handlers :
                      cfg_lock.writers = {h} /\ hs[h].pc = "evaluating"
                /\ ~active'
                /\ player_ids' = <<>>
                /\ Fresh([buckets |-> buckets', position |-> position', turn |-> turn'])
                /\ Capacities(buckets') = Capacities(buckets)]_vars

\* A committed move is about to make winners() return a result: a counter is
\* on the board, a player is bound, and the game is active.
C32_Witness ==
    /\ pc = "run_done"
    /\ res = Ok
    /\ active
    /\ player_ids # <<>>
    /\ \E k \in 1..Len(buckets) : buckets[k].locked
    /\ \A out \in WinnersOutcomes(next_turn(Self)) : out.kind = "Some"

\* No user is in the sequence ids twice.
NoDuplicate(ids) == \A i, j \in 1..Len(ids) : i # j => ids[i] # ids[j]

\* C33. Player-slot binding: player_ids never holds a user twice and never
\* has more entries than there are players; the handler of a move or skip
\* whose author is not the user bound to the slot on move leaves the board and
\* the bindings as they are and calls no eval; and player_ids only grows by
\* one user at the end of a committed move, the author of that move, who was
\* bound to no slot, on the slot that was on move and was unbound.
C33_SlotBinding ==
    [][/\ NoDuplicate(player_ids)
       /\ Len(player_ids) <= Len(players)
       /\ \A h \in Handlers :
             LET slot == GameConfig_id(Self, player_ids)
             IN  (/\ hs[h].pc = "held"
                  /\ hs[h].msg.kind \in {"move", "skip"}
                  /\ slot # None
                  /\ slot.id # hs[h].msg.author
                  /\ hs'[h] # hs[h]) =>
                     /\ UNCHANGED <<boardVars, player_ids, active>>
                     /\ pc' = "idle"
       /\ (player_ids' # player_ids /\ player_ids' # <<>>) =>
             \E h \in Handlers :
                /\ hs[h].pc = "evaluating"
                /\ Returning
                /\ ~IsErr(res)
                /\ player_ids' = Append(player_ids, hs[h].msg.author)
                /\ hs[h].msg.author \notin Range(player_ids)
                /\ player_idx(before) = Len(player_ids)]_vars

\* C34. Channel registration race: whatever the interleaving of the handlers
\* of a channel without an entry, no handler is about to call
\* GamesMap::insert for the channel when the map has an entry for it, so the
\* `duplicated channel ID` panic cannot happen.
C34_NoDuplicateInsert ==
    \A h \in Handlers : ~(hs[h].pc = "insert" /\ games)

\* The handler of a `set board` message with these components answers
\* `Could not parse board.`: one of them is not a number.
CouldNotParse(components) == \E i \in 1..Len(components) : ~components[i].ok

\* C35. Rejected board configuration: no step of the handler of a `set board`
\* message one of whose components does not parse changes the buckets, the
\* position or the turn.
C35_RejectedBoard ==
    [][\A h \in Handlers :
          (/\ hs[h].msg.kind = "set_board"
           /\ CouldNotParse(hs[h].msg.args)
           /\ hs'[h] # hs[h]) =>
              UNCHANGED <<buckets, position, turn>>]_vars

====
